---- MODULE Spec2Model ----
(***************************************************************************)
(* Serial hardware bridge of the URDF viewer (urdfHardwareBridge.ts) and   *)
(* the wrappers of the viewer's setJointValue slot (urdfViewerHelpers.ts). *)
(*                                                                         *)
(* Angles are integers in milliradians; positions are actuator units.     *)
(* A suspended async function is a program counter plus its locals.       *)
(***************************************************************************)
EXTENDS Integers, Sequences, FiniteSets, TLC

\* ------------------------------------------------------------------------
\* Configuration (ViewerHardwareBridgeOptions and the loaded URDF)
\* ------------------------------------------------------------------------

CMD_BASE == 30000
ALL_ID == 254
posMin == 0
posMax == 1023
deadbandRad == 2
PiMilli == 3142

\* The non-finite angle, outside every finite angle of the model.
NaN == 999999

JointNames == {"shoulder", "elbow", "wrist"}

\* jointNameMap: viewer joint -> dxl id string; wrist is not mapped.
jointNameMap == [shoulder |-> 1, elbow |-> 2]

\* Limits parsed from the URDF by setupJointLimits (milliradians).
UrdfLimits == [shoulder |-> [lower |-> -1570, upper |-> 1570],
               elbow |-> [lower |-> -1570, upper |-> 1570]]

\* Angles the callers write (milliradians).  0 and 3 are outside the
\* deadband of each other and map to the same position; 3 and 4 are inside
\* it and map to different positions.
Rads == {0, 3, 4}
\* The joint writes explored: every mapped joint with its angles, a
\* non-finite angle, and a joint that jointNameMap does not hold.
Writes == ({"shoulder"} \X Rads) \cup ({"elbow"} \X {0})
          \cup {<<"shoulder", NaN>>, <<"wrist", 0>>}
\* The entries of the records handed to sendJoints, and the telemetry
\* entries explored.
BatchWrites == ({"shoulder"} \X {0, 4}) \cup ({"elbow"} \X {0})
TelemetryWrites == {<<"shoulder", 4>>, <<"elbow", 0>>}

\* Bounds of the exploration.
MaxLimitInstalls == 2
MaxBatch == 1
MaxDisc == 1

VARIABLES
  slot,            \* viewer.setJointValue: the function in the slot
  viewerOriginal,  \* viewer.originalSetJointValue (set by setupJointLimits)
  limitsLoaded,    \* viewer.jointLimits is set
  limitInstalls,   \* number of limit wrappers installed so far
  bridge,          \* "none" | "up" | "closed": the bridge handle
  originalSetJointValue, \* const captured by setupViewerWsHardwareBridge
  slotAtWrap,      \* history: wrapper -> function in the slot when it wrapped
  port, writer, connected,
  pending,         \* Map<id, PendingVal> in insertion order
  lastSent,        \* Map<id, PendingVal>
  currentTarget, txState, flushTimer, writing,
  timers,          \* the setTimeout callbacks of the bridge not yet run or cleared
  timerKept,       \* history: a scheduleFlush() of the last step found a timer
  inflight,        \* the writer.write() a flush callback is awaiting
  cpc,             \* connect(): "idle" | "requesting" | "opening"
  closing,         \* number of disconnect() calls awaiting port.close()
  serialSupported, \* navigator.serial exists
  lastSelOk,       \* history: motor of the last select packet written ok
  latest,          \* history: per motor, the last value queueJoint accepted,
                   \* until it is transmitted or the bridge drops it
  touched,         \* history: the motors whose accepted value the bridge
                   \* still holds, in the order of their last accepted write
  lastStatus,      \* history: the payload the last step handed to onStatus
  raised,          \* history: where the last step's exception went
  call,            \* the arguments of the pure function being called
  result,          \* what that call returned
  rafRef,          \* rafRef.current: 0 (null) or the handle of the frame
  frames,          \* the browser's list of animation frame callbacks
  nextHandle,      \* the handle the next requestAnimationFrame returns
  clock,           \* performance.now(), in milliseconds
  jointValue,      \* viewer.robot.joints[name].jointValue, in milliradians
  batchNo,         \* history: motion batches started so far
  lastTick,        \* history: what the last tick did
  pendingMoveRef,  \* pendingMoveRef.current: the stored robot:moveJoints detail
  processing,      \* urdf-processed handlers awaiting setupJointLimits
  loads,           \* history: models processed so far
  arrived,         \* history: robot:moveJoints events with motions so far
  applied          \* history: the arrival numbers of the batches applied

vars == <<slot, viewerOriginal, limitsLoaded, limitInstalls, bridge,
          originalSetJointValue, slotAtWrap, port, writer, connected, pending,
          lastSent, currentTarget, txState, flushTimer, timers, timerKept,
          writing, inflight,
          cpc, closing, serialSupported, lastSelOk, latest, touched, lastStatus,
          raised, call, result, rafRef, frames, nextHandle, clock,
          jointValue, batchNo, lastTick, pendingMoveRef, processing, loads,
          arrived, applied>>

viewerVars == <<slot, viewerOriginal, limitsLoaded, limitInstalls, slotAtWrap>>
sessionVars == <<port, writer, connected, cpc, closing>>
queueVars == <<pending, lastSent, currentTarget, txState, flushTimer, timers,
               writing, inflight, lastSelOk, latest, touched>>
\* What the bridge and the slot never touch.
animVars == <<rafRef, frames, nextHandle, clock, jointValue, batchNo, lastTick>>
\* The component's store of a batch that came before the robot was ready.
motionVars == <<pendingMoveRef, processing, loads, arrived, applied>>
auxVars == <<call, result, animVars, motionVars>>
\* What a pure function never touches.
programVars == <<viewerVars, bridge, originalSetJointValue, sessionVars,
                 queueVars, timerKept, serialSupported, lastStatus, raised,
                 animVars, motionVars>>
\* What the animator never touches.
besideAnimator == <<viewerVars, bridge, originalSetJointValue, sessionVars,
                    queueVars, timerKept, serialSupported, lastStatus,
                    raised, call, result>>

\* ------------------------------------------------------------------------
\* Pure helpers
\* ------------------------------------------------------------------------

Abs(x) == IF x < 0 THEN -x ELSE x
Max(a, b) == IF a > b THEN a ELSE b
Min(a, b) == IF a < b THEN a ELSE b

\* Fault variant of RoundDiv: Math.floor in place of Math.round.
FloorDiv(num, den) == num \div den

\* Math.round(num / den) for den > 0: floor(num/den + 1/2).
RoundDiv(num, den) == (2 * num + den) \div (2 * den)

\* clampInt(v, lo, hi) on an integer v.
clampInt(v, lo, hi) == Max(lo, Min(hi, v))

\* makeSelectCode(dxlId); -1 stands for the thrown Error.
makeSelectCode(dxlId) ==
  IF dxlId = ALL_ID THEN CMD_BASE
  ELSE IF dxlId >= 1 /\ dxlId <= 254 THEN CMD_BASE + dxlId
  ELSE -1

\* viewer.jointLimits?.[joint] is defined
HasViewerLimit(joint) == limitsLoaded /\ joint \in DOMAIN UrdfLimits

\* Math.max / Math.min propagate NaN.
clampWithViewerLimits(joint, value) ==
  IF ~HasViewerLimit(joint) \/ value = NaN THEN value
  ELSE Min(UrdfLimits[joint].upper, Max(UrdfLimits[joint].lower, value))

clampJointValue(joint, value) ==
  IF joint \notin DOMAIN UrdfLimits \/ value = NaN THEN value
  ELSE Max(UrdfLimits[joint].lower, Min(UrdfLimits[joint].upper, value))

\* The body of defaultRadToPosFactory's closure once lo and hi are known.
defaultRadToPos(lo, hi, rad) ==
  IF hi = lo
  THEN clampInt(RoundDiv(posMin + posMax, 2), posMin, posMax)
  ELSE LET r == Max(lo, Min(hi, rad))
       IN clampInt(posMin + RoundDiv((r - lo) * (posMax - posMin), hi - lo),
                   posMin, posMax)

\* defaultRadToPosFactory(posMin, posMax)(viewerJoint, rad, viewer), rad finite.
radToPosFn(viewerJoint, rad) ==
  LET lo == IF HasViewerLimit(viewerJoint) THEN UrdfLimits[viewerJoint].lower
            ELSE -PiMilli
      hi == IF HasViewerLimit(viewerJoint) THEN UrdfLimits[viewerJoint].upper
            ELSE PiMilli
  IN defaultRadToPos(lo, hi, rad)

\* getDxlId(viewerJoint); 0 stands for null.
getDxlId(viewerJoint) ==
  IF viewerJoint \notin DOMAIN jointNameMap THEN 0
  ELSE LET id == jointNameMap[viewerJoint]
       IN IF id < 1 \/ id > 254 THEN 0 ELSE id

Ids == {jointNameMap[j] : j \in DOMAIN jointNameMap}

\* PendingVal {rad, pos}; NoPV stands for undefined.
NoPV == [rad |-> 0, pos |-> -1]
\* TxState {phase, id, val}; NoTx stands for null.
NoTx == [phase |-> -1, id |-> 0, val |-> NoPV]
\* A writer.write() in flight: the packet, and the callback's locals.
NoWrite == [kind |-> "none", id |-> 0, val |-> NoPV, u16 |-> 0]
\* Function values that can be in the setJointValue slot.
RawFn == [k |-> "raw", n |-> 0]
BridgeFn == [k |-> "bridge", n |-> 0]
LimitFn(n) == [k |-> "limit", n |-> n]
NoFn == [k |-> "none", n |-> 0]
\* No pure call is under way.
NoArgs == <<>>
\* onStatus payloads; NoStatus stands for "onStatus was not called".
NoStatus == [connected |-> FALSE, lastError |-> "not called"]

\* ------------------------------------------------------------------------
\* The ordered Map `pending`: a sequence of [id, val] without duplicate ids
\* ------------------------------------------------------------------------

PHas(p, id) == \E i \in 1..Len(p) : p[i].id = id
PGet(p, id) == IF PHas(p, id)
               THEN (CHOOSE e \in {p[i] : i \in 1..Len(p)} : e.id = id).val
               ELSE NoPV
PDelete(p, id) == SelectSeq(p, LAMBDA e : e.id # id)
\* Map.set: replaces in place when the key exists, appends otherwise.
PSet(p, id, val) ==
  IF PHas(p, id)
  THEN [i \in 1..Len(p) |-> IF p[i].id = id THEN [id |-> id, val |-> val] ELSE p[i]]
  ELSE Append(p, [id |-> id, val |-> val])

\* ------------------------------------------------------------------------
\* emitStatus and scheduleFlush
\* ------------------------------------------------------------------------

\* emitStatus(patch): onStatus({connected, ...patch})
emitStatus(conn, err) == [connected |-> conn, lastError |-> err]

\* Fault variant of TimerOutstanding: the test is left out.
TimerOutstandingIgnored(ft) == FALSE

\* if (flushTimer) return;
TimerOutstanding(ft) == ft

\* scheduleFlush(): the value of flushTimer after the call.
scheduleFlush(ft, conn, wr) ==
  IF TimerOutstanding(ft) THEN ft
  ELSE IF conn /\ wr THEN TRUE
  ELSE ft

\* The setTimeout calls that scheduleFlush() makes.
Armed(ft, conn, wr) == IF ~TimerOutstanding(ft) /\ conn /\ wr THEN 1 ELSE 0

\* ------------------------------------------------------------------------
\* queueJoint: the coalescer state is the pair [pending, flushTimer]
\* ------------------------------------------------------------------------

\* Fault variant of Dropped: the deadband test is left out, only the
\* same-position test remains.
DroppedSamePosOnly(prev, radValue, pos) == prev # NoPV /\ prev.pos = pos

\* prev = pending.get(dxlId) ?? lastSent.get(dxlId)
Prev(p, id) == IF PHas(p, id) THEN PGet(p, id) ELSE lastSent[id]

\* The value queueJoint leaves out: inside the deadband of prev, or the same pos.
Dropped(prev, radValue, pos) ==
  prev # NoPV /\ (Abs(prev.rad - radValue) < deadbandRad \/ prev.pos = pos)

queueJoint(q, viewerJoint, radValue) ==
  LET dxlId == getDxlId(viewerJoint) IN
  IF radValue = NaN \/ dxlId = 0 THEN q
  ELSE LET pos == clampInt(radToPosFn(viewerJoint, radValue), posMin, posMax)
       IN IF Dropped(Prev(q.pending, dxlId), radValue, pos) THEN q
          ELSE [pending |-> PSet(PDelete(q.pending, dxlId), dxlId,
                                 [rad |-> radValue, pos |-> pos]),
                flushTimer |-> scheduleFlush(q.flushTimer, connected, writer),
                timers |-> q.timers + Armed(q.flushTimer, connected, writer),
                kept |-> q.kept \/ TimerOutstanding(q.flushTimer)]

\* ------------------------------------------------------------------------
\* Calling a function value of the slot
\* ------------------------------------------------------------------------

\* What a call reaches: the raw primitive (with which value) and the
\* bridge's queueJoint (with which value).
NoCall == [rawHit |-> FALSE, rawVal |-> 0, qHit |-> FALSE, qVal |-> 0]

\* The limit wrapper forwards to viewer.originalSetJointValue.
LimitForward == viewerOriginal
\* The bridge wrapper forwards to the const it captured at setup.
BridgeForward == originalSetJointValue

RECURSIVE CallFn(_, _, _)
CallFn(fn, joint, value) ==
  IF fn.k = "raw"
  THEN [rawHit |-> TRUE, rawVal |-> value, qHit |-> FALSE, qVal |-> 0]
  ELSE IF fn.k = "limit"
  THEN IF LimitForward # NoFn
       THEN CallFn(LimitForward, joint, clampJointValue(joint, value))
       ELSE NoCall
  ELSE IF fn.k = "bridge"
  THEN LET clamped == clampWithViewerLimits(joint, value)
           r == CallFn(BridgeForward, joint, clamped)
       IN [r EXCEPT !.qHit = TRUE, !.qVal = clamped]
  ELSE NoCall

QueueAfter(r, joint) ==
  LET q == [pending |-> pending, flushTimer |-> flushTimer,
            timers |-> timers, kept |-> FALSE]
  IN IF r.qHit THEN queueJoint(q, joint, r.qVal) ELSE q

\* An accepted write changes the motor's pending value.
LatestAfter(q) ==
  [id \in Ids |-> IF PGet(q.pending, id) # PGet(pending, id)
                  THEN PGet(q.pending, id) ELSE latest[id]]

\* The motors whose pending value a write changed, in the order the queue
\* now holds them, moved to the end of the order of last accepted writes.
TouchedAfter(q) ==
  LET accepted(id) == PGet(q.pending, id) # PGet(pending, id)
  IN SelectSeq(touched, LAMBDA id : ~accepted(id))
     \o SelectSeq([i \in 1..Len(q.pending) |-> q.pending[i].id], accepted)

\* Fault variant of CallerSees: the write throws when the session is down.
CallerSeesSessionDown == IF connected THEN "none" ELSE "caller"

\* What the caller of setJointValue / sendJoints sees: queueJoint and
\* scheduleFlush return in every session state, they have no throw.
CallerSees == "none"

\* ------------------------------------------------------------------------
\* Initial states
\* ------------------------------------------------------------------------

Wrappers == {BridgeFn} \cup {LimitFn(n) : n \in 1..(MaxLimitInstalls + 1)}

\* The bridge's own state right after setupViewerWsHardwareBridge's locals
\* are initialised (lines 159-201), and the histories.
InitBridgeState ==
  /\ port = FALSE
  /\ writer = FALSE
  /\ connected = FALSE
  /\ pending = <<>>
  /\ lastSent = [id \in Ids |-> NoPV]
  /\ currentTarget = 0
  /\ txState = NoTx
  /\ flushTimer = FALSE
  /\ timers = 0
  /\ timerKept = FALSE
  /\ writing = FALSE
  /\ inflight = NoWrite
  /\ cpc = "idle"
  /\ closing = 0
  /\ serialSupported \in BOOLEAN
  /\ lastSelOk = 0
  /\ latest = [id \in Ids |-> NoPV]
  /\ touched = <<>>
  /\ lastStatus = NoStatus
  /\ raised = "none"

\* No pure call is under way.
AuxIdle ==
  /\ call = NoArgs
  /\ result = NoArgs

\* No tick has run (batch 0 is no batch).
NoTick == [batch |-> 0, now |-> 0, start |-> 0, items |-> <<>>,
           values |-> <<>>, running |-> FALSE]

\* pendingMoveRef.current is null.
NoBatch == [n |-> 0, motions |-> <<>>, animate |-> FALSE]

\* The component after mounting: rafRef = useRef(null), no frame requested,
\* pendingMoveRef = useRef(null).
AnimatorMounted ==
  /\ pendingMoveRef = NoBatch
  /\ processing = 0
  /\ loads = 0
  /\ arrived = 0
  /\ applied = <<>>
  /\ rafRef = 0
  /\ frames = {}
  /\ nextHandle = 1
  /\ clock = 0
  /\ batchNo = 0
  /\ lastTick = NoTick

\* The animator of a viewer whose robot is not loaded.
AnimatorIdle ==
  /\ AnimatorMounted
  /\ jointValue = <<>>

\* A fresh viewer: the slot holds the raw primitive, no limits, no bridge.
FreshViewer ==
  /\ slot = RawFn
  /\ viewerOriginal = NoFn
  /\ limitsLoaded = FALSE
  /\ limitInstalls = 0
  /\ bridge = "none"
  /\ originalSetJointValue = NoFn
  /\ slotAtWrap = [w \in Wrappers |-> NoFn]
  /\ InitBridgeState

InitViewer == FreshViewer /\ AuxIdle /\ AnimatorIdle

\* The state after setupViewerWsHardwareBridge(viewer, opts) returned, on a
\* viewer whose joint limits setupJointLimits installed before.
ViewerWithBridge ==
  /\ limitsLoaded = TRUE
  /\ limitInstalls = 1
  /\ viewerOriginal = RawFn
  /\ originalSetJointValue = LimitFn(1)
  /\ slot = BridgeFn
  /\ bridge = "up"
  /\ slotAtWrap = [w \in Wrappers |->
                     IF w = BridgeFn THEN LimitFn(1)
                     ELSE IF w = LimitFn(1) THEN RawFn
                     ELSE NoFn]
  /\ InitBridgeState

Init == ViewerWithBridge /\ AuxIdle /\ AnimatorIdle

\* ------------------------------------------------------------------------
\* Installing wrappers
\* ------------------------------------------------------------------------

\* setupJointLimits: the continuation after fetch(); ok = the fetch and the
\* parse succeeded.
SetupJointLimits(ok) ==
  /\ limitInstalls < MaxLimitInstalls
  /\ IF ok
     THEN /\ limitsLoaded' = TRUE
          /\ viewerOriginal' = IF viewerOriginal = NoFn THEN slot ELSE viewerOriginal
          /\ slot' = LimitFn(limitInstalls + 1)
          /\ slotAtWrap' = [slotAtWrap EXCEPT ![LimitFn(limitInstalls + 1)] = slot]
          /\ limitInstalls' = limitInstalls + 1
     ELSE UNCHANGED viewerVars
  /\ raised' = "none"
  /\ UNCHANGED <<bridge, originalSetJointValue, sessionVars, queueVars,
                 serialSupported>>
  /\ lastStatus' = NoStatus
  /\ timerKept' = FALSE
  /\ UNCHANGED auxVars

\* setupViewerWsHardwareBridge(viewer, opts) with autoConnect = false.
SetupBridge ==
  /\ bridge = "none"
  /\ originalSetJointValue' = slot
  /\ slot' = BridgeFn
  /\ slotAtWrap' = [slotAtWrap EXCEPT ![BridgeFn] = slot]
  /\ bridge' = "up"
  /\ raised' = "none"
  /\ UNCHANGED <<viewerOriginal, limitsLoaded, limitInstalls, sessionVars,
                 queueVars, serialSupported>>
  /\ lastStatus' = NoStatus
  /\ timerKept' = FALSE
  /\ UNCHANGED auxVars

\* ------------------------------------------------------------------------
\* Joint writes
\* ------------------------------------------------------------------------

\* A caller invokes viewer.setJointValue(joint, value): whatever is in the slot.
SetJointValue(joint, value) ==
  \E q \in {QueueAfter(CallFn(slot, joint, value), joint)} :
     /\ pending' = q.pending
     /\ flushTimer' = q.flushTimer
     /\ timers' = q.timers
     /\ timerKept' = q.kept
     /\ latest' = LatestAfter(q)
     /\ touched' = TouchedAfter(q)
     /\ raised' = CallerSees
     /\ UNCHANGED <<viewerVars, bridge, originalSetJointValue, sessionVars, lastSent,
                    currentTarget, txState, writing, inflight, lastSelOk,
                    serialSupported>>
     /\ lastStatus' = NoStatus
     /\ UNCHANGED auxVars

\* Records of at most MaxBatch entries, as Object.entries lists them.
Batches ==
  {b \in UNION {[1..n -> BatchWrites] : n \in 1..MaxBatch} :
     \A i, k \in DOMAIN b : i # k => b[i][1] # b[k][1]}

RECURSIVE SendFold(_, _, _)
SendFold(q, b, i) ==
  IF i > Len(b) THEN q
  ELSE SendFold(queueJoint(q, b[i][1], clampWithViewerLimits(b[i][1], b[i][2])),
                b, i + 1)

\* handle.sendJoints(joints)
SendJoints(b) ==
  \E q \in {SendFold([pending |-> pending, flushTimer |-> flushTimer,
                       timers |-> timers, kept |-> FALSE], b, 1)} :
     /\ bridge = "up"
     /\ pending' = q.pending
     /\ flushTimer' = q.flushTimer
     /\ timers' = q.timers
     /\ timerKept' = q.kept
     /\ latest' = LatestAfter(q)
     /\ touched' = TouchedAfter(q)
     /\ raised' = CallerSees
     /\ UNCHANGED <<viewerVars, bridge, originalSetJointValue, sessionVars,
                    lastSent, currentTarget, txState, writing, inflight, lastSelOk,
                    serialSupported>>
     /\ lastStatus' = NoStatus
     /\ UNCHANGED auxVars

\* ------------------------------------------------------------------------
\* The flush timer callback, up to its await
\* ------------------------------------------------------------------------

PosPacket(id, val) ==
  [kind |-> "pos", id |-> id, val |-> NoPV, u16 |-> clampInt(val.pos, posMin, posMax)]
SelPacket(id) ==
  [kind |-> "sel", id |-> id, val |-> NoPV, u16 |-> makeSelectCode(id)]
DirectPacket(id, val) ==
  [kind |-> "direct", id |-> id, val |-> val, u16 |-> clampInt(val.pos, posMin, posMax)]

\* phase 1: the value sent is the latest pending one, when there is one.
LatestFor(tx) == IF PHas(pending, tx.id) THEN PGet(pending, tx.id) ELSE tx.val

\* Fault variant of LastEntry: the oldest entry is taken.
OldestEntry(p) == p[1]

\* The entry the for-loop over pending.entries() ends on.
LastEntry(p) == p[Len(p)]

\* Fault variant of SameMotor: any cached target counts as selected.
SameMotorAnyTarget(id) == currentTarget # 0

\* The test that sends the position without a select.
SameMotor(id) == currentTarget = id

\* Fault variant of WriteUnderWay: the test is left out.
WriteUnderWayIgnored(w) == FALSE

\* if (writing)
WriteUnderWay(w) == w

\* Fault variant of TxPresent: only a TxState in its select phase holds
\* the tick; in the position phase the tick goes on to the queue.
TxPresentInSelectOnly(tx) == tx # NoTx /\ tx.phase = 0

\* if (txState)
TxPresent(tx) == tx # NoTx

FlushTick ==
  /\ timers > 0
  /\ raised' = "none"
  /\ IF ~connected \/ ~writer
     THEN /\ flushTimer' = FALSE
          /\ UNCHANGED <<pending, txState, writing, inflight>>
     ELSE IF WriteUnderWay(writing)
     THEN /\ flushTimer' = scheduleFlush(FALSE, connected, writer)
          /\ UNCHANGED <<pending, txState, writing, inflight>>
     ELSE IF TxPresent(txState) /\ txState.phase = 0
     THEN /\ inflight' = SelPacket(txState.id)
          /\ writing' = TRUE
          /\ flushTimer' = FALSE
          /\ UNCHANGED <<pending, txState>>
     ELSE IF TxPresent(txState)
     THEN /\ txState' = [txState EXCEPT !.val = LatestFor(txState)]
          /\ pending' = PDelete(pending, txState.id)
          /\ inflight' = PosPacket(txState.id, LatestFor(txState))
          /\ writing' = TRUE
          /\ flushTimer' = FALSE
     ELSE IF pending = <<>>
     THEN /\ flushTimer' = FALSE
          /\ UNCHANGED <<pending, txState, writing, inflight>>
     ELSE LET last == LastEntry(pending) IN
          /\ pending' = PDelete(pending, last.id)
          /\ IF SameMotor(last.id)
             THEN /\ inflight' = DirectPacket(last.id, last.val)
                  /\ writing' = TRUE
                  /\ flushTimer' = FALSE
                  /\ UNCHANGED txState
             ELSE /\ txState' = [phase |-> 0, id |-> last.id, val |-> last.val]
                  /\ flushTimer' = scheduleFlush(FALSE, connected, writer)
                  /\ UNCHANGED <<writing, inflight>>
  \* The callback has cleared flushTimer, so it is set afterwards exactly
  \* when this step armed a new timer.
  /\ timers' = timers - 1 + (IF flushTimer' THEN 1 ELSE 0)
  /\ timerKept' = FALSE
  /\ UNCHANGED <<viewerVars, bridge, originalSetJointValue, sessionVars,
                 lastSent, currentTarget, lastSelOk, latest, touched,
                 serialSupported>>
  /\ lastStatus' = NoStatus
  /\ UNCHANGED auxVars

\* ------------------------------------------------------------------------
\* The flush callback after writer.write() settled
\* ------------------------------------------------------------------------

\* `txState.val` read after the await: a TypeError when txState is null.
Throws(w) == w.kind \in {"sel", "pos"} /\ txState = NoTx

\* The value the failure branch puts back (pending.delete; pending.set).
Restore(p, id, val) == PSet(PDelete(p, id), id, val)

PendingAfterSettle(w, ok) ==
  IF ok THEN pending
  ELSE IF w.kind = "direct" THEN Restore(pending, w.id, w.val)
  ELSE IF txState = NoTx THEN PDelete(pending, w.id)
  ELSE Restore(pending, w.id, txState.val)

TxAfterSettle(w, ok) ==
  IF w.kind = "direct" \/ txState = NoTx THEN txState
  ELSE IF w.kind = "sel" /\ ok THEN [txState EXCEPT !.phase = 1]
  ELSE NoTx

LastSentAfterSettle(w, ok) ==
  IF ~ok \/ w.kind = "sel" THEN lastSent
  ELSE IF w.kind = "direct" THEN [lastSent EXCEPT ![w.id] = w.val]
  ELSE IF txState = NoTx THEN lastSent
  ELSE [lastSent EXCEPT ![w.id] = txState.val]

\* The write mirrored a value into lastSent.
Transmitted(w, ok) == ok /\ w.kind \in {"pos", "direct"} /\ ~Throws(w)

TargetAfterSettle(w, ok) ==
  IF w.kind = "sel" /\ ok THEN w.id ELSE currentTarget

\* safeWriteU16's catch: connected = false and the status callback.
ConnectedAfterWrite(ok) == IF ok THEN connected ELSE FALSE
StatusAfterWrite(ok) == IF ok THEN NoStatus ELSE emitStatus(FALSE, "write")

\* Fault variant of WorkRemains: a TxState alone does not count as work.
WorkRemainsInQueueOnly(tx, p) == p # <<>>

\* finally: txState || pending.size
WorkRemains(tx, p) == tx # NoTx \/ p # <<>>

WriteSettle(ok) ==
  /\ inflight # NoWrite
  /\ pending' = PendingAfterSettle(inflight, ok)
  /\ txState' = TxAfterSettle(inflight, ok)
  /\ lastSent' = LastSentAfterSettle(inflight, ok)
  /\ currentTarget' = TargetAfterSettle(inflight, ok)
  /\ lastSelOk' = IF inflight.kind = "sel" /\ ok THEN inflight.id ELSE lastSelOk
  /\ connected' = ConnectedAfterWrite(ok)
  /\ lastStatus' = StatusAfterWrite(ok)
  /\ inflight' = NoWrite
  /\ writing' = FALSE
  /\ flushTimer' = IF connected' /\ writer /\ WorkRemains(txState', pending')
                   THEN scheduleFlush(flushTimer, connected', writer)
                   ELSE flushTimer
  /\ timers' = IF connected' /\ writer /\ WorkRemains(txState', pending')
               THEN timers + Armed(flushTimer, connected', writer)
               ELSE timers
  /\ timerKept' = (/\ connected' /\ writer
                   /\ WorkRemains(txState', pending')
                   /\ TimerOutstanding(flushTimer))
  /\ raised' = IF Throws(inflight) THEN "callback" ELSE "none"
  /\ latest' = [id \in Ids |->
                  IF Transmitted(inflight, ok) /\ id = inflight.id
                     /\ lastSent'[id] = latest[id]
                  THEN NoPV ELSE latest[id]]
  /\ touched' = SelectSeq(touched, LAMBDA id : PHas(pending', id)
                                               \/ txState'.id = id)
  /\ UNCHANGED <<viewerVars, bridge, originalSetJointValue, port, writer,
                 cpc, closing, serialSupported>>
  /\ UNCHANGED auxVars

\* ------------------------------------------------------------------------
\* connect()
\* ------------------------------------------------------------------------

AlreadyConnected == connected /\ writer /\ port

ConnectCall ==
  /\ bridge = "up"
  /\ cpc = "idle"
  /\ IF AlreadyConnected
     THEN /\ raised' = "none"
          /\ lastStatus' = NoStatus
          /\ UNCHANGED cpc
     ELSE IF ~serialSupported
     THEN /\ lastStatus' = emitStatus(FALSE, "unsupported")
          /\ raised' = "connect"
          /\ UNCHANGED cpc
     ELSE /\ cpc' = IF port THEN "opening" ELSE "requesting"
          /\ raised' = "none"
          /\ lastStatus' = NoStatus
  /\ UNCHANGED <<viewerVars, bridge, originalSetJointValue, port, writer,
                 connected, closing, queueVars, serialSupported>>
  /\ timerKept' = FALSE
  /\ UNCHANGED auxVars

\* Fault variant of ConnectFailed: the catch block leaves `connected` alone.
ConnectFailedKeepsFlag ==
  /\ UNCHANGED connected
  /\ lastStatus' = emitStatus(FALSE, "connect")
  /\ raised' = "connect"
  /\ cpc' = "idle"

\* The catch block of connect().
ConnectFailed ==
  /\ connected' = FALSE
  /\ lastStatus' = emitStatus(FALSE, "connect")
  /\ raised' = "connect"
  /\ cpc' = "idle"

\* navigator.serial.requestPort() settled.
RequestSettle(ok) ==
  /\ cpc = "requesting"
  /\ IF ok
     THEN /\ port' = TRUE
          /\ cpc' = "opening"
          /\ raised' = "none"
          /\ lastStatus' = NoStatus
          /\ UNCHANGED connected
     ELSE /\ ConnectFailed
          /\ UNCHANGED port
  /\ UNCHANGED <<viewerVars, bridge, originalSetJointValue, writer, closing,
                 queueVars, serialSupported>>
  /\ timerKept' = FALSE
  /\ UNCHANGED auxVars

\* port.open() settled; res is "ok", "reject" or "notWritable".  Reading
\* port.writable of a port that disconnect() has nulled meanwhile throws
\* into the same catch.
OpenSettle(res) ==
  /\ cpc = "opening"
  /\ IF res = "ok" /\ port
     THEN /\ writer' = TRUE
          /\ connected' = TRUE
          /\ lastStatus' = emitStatus(TRUE, "none")
          /\ flushTimer' = scheduleFlush(flushTimer, TRUE, TRUE)
          /\ timers' = timers + Armed(flushTimer, TRUE, TRUE)
          /\ timerKept' = TimerOutstanding(flushTimer)
          /\ raised' = "none"
          /\ cpc' = "idle"
     ELSE /\ ConnectFailed
          /\ timerKept' = FALSE
          /\ UNCHANGED <<writer, flushTimer, timers>>
  /\ UNCHANGED <<viewerVars, bridge, originalSetJointValue, port, closing,
                 pending, lastSent, currentTarget, txState, writing, inflight,
                 lastSelOk, latest, touched, serialSupported>>
  /\ UNCHANGED auxVars

\* ------------------------------------------------------------------------
\* disconnect() and close().  The handle is used while the bridge is up:
\* after close() only the callbacks already under way still run.
\* ------------------------------------------------------------------------

\* The history forgets the value that `txState = null` throws away.
DroppedFrom(l) ==
  IF txState = NoTx \/ PHas(pending, txState.id) THEN l
  ELSE [l EXCEPT ![txState.id] = NoPV]

\* disconnect() up to `await port.close()`; without a port it runs to its end.
DisconnectSync ==
  /\ port => closing < MaxDisc
  /\ connected' = FALSE
  /\ flushTimer' = FALSE
  /\ timers' = IF flushTimer THEN timers - 1 ELSE timers
  /\ timerKept' = FALSE
  /\ txState' = NoTx
  /\ currentTarget' = 0
  /\ writer' = FALSE
  /\ closing' = IF port THEN closing + 1 ELSE closing
  /\ lastStatus' = IF port THEN NoStatus ELSE emitStatus(FALSE, "none")
  /\ UNCHANGED <<port, cpc>>

Disconnect ==
  /\ bridge = "up"
  /\ DisconnectSync
  /\ latest' = DroppedFrom(latest)
  /\ touched' = SelectSeq(touched, LAMBDA id :
                            \/ PHas(pending, id)
                            \/ inflight.kind = "direct" /\ inflight.id = id)
  /\ raised' = "none"
  /\ UNCHANGED <<viewerVars, bridge, originalSetJointValue, pending,
                 lastSent, writing, inflight, lastSelOk, serialSupported>>
  /\ UNCHANGED auxVars

\* disconnect() after port.close() settled (errors are swallowed).
DisconnectFinish ==
  /\ closing > 0
  /\ closing' = closing - 1
  /\ port' = FALSE
  /\ lastStatus' = emitStatus(FALSE, "none")
  /\ raised' = "none"
  /\ UNCHANGED <<viewerVars, bridge, originalSetJointValue, writer,
                 connected, cpc, queueVars, serialSupported>>
  /\ timerKept' = FALSE
  /\ UNCHANGED auxVars

\* Fault variant of RestoredFn: close() puts the raw primitive back.
RestoredRaw == RawFn
\* The function close() puts back into the slot.
RestoredFn == originalSetJointValue

\* Fault variant of ClearedLastSent: close() leaves lastSent as it is.
KeptLastSent == lastSent
\* lastSent.clear()
ClearedLastSent == [id \in Ids |-> NoPV]

Close ==
  /\ bridge = "up"
  /\ slot' = RestoredFn
  /\ pending' = <<>>
  /\ lastSent' = ClearedLastSent
  /\ latest' = [id \in Ids |-> NoPV]
  /\ touched' = <<>>
  /\ DisconnectSync
  /\ bridge' = "closed"
  /\ raised' = "none"
  /\ UNCHANGED <<viewerOriginal, limitsLoaded, limitInstalls, slotAtWrap,
                 originalSetJointValue, writing, inflight, lastSelOk,
                 serialSupported>>
  /\ UNCHANGED auxVars

\* ------------------------------------------------------------------------
\* Incoming telemetry (the state applicator of the bridge)
\* ------------------------------------------------------------------------

\* Fault variant of ApplyTarget: the applicator writes through the slot.
ApplyThroughSlot == slot
\* The function the applicator writes through.
ApplyTarget == originalSetJointValue

\* One state_joint entry: clamp to the viewer's limits, write.
ApplyStateToViewer(joint, value) ==
  \E q \in {QueueAfter(CallFn(ApplyTarget, joint,
                                clampWithViewerLimits(joint, value)), joint)} :
     /\ bridge = "up"
     /\ connected
     /\ pending' = q.pending
     /\ flushTimer' = q.flushTimer
     /\ timers' = q.timers
     /\ timerKept' = q.kept
     /\ latest' = LatestAfter(q)
     /\ touched' = TouchedAfter(q)
     /\ lastStatus' = NoStatus
     /\ raised' = "none"
     /\ UNCHANGED <<viewerVars, bridge, originalSetJointValue, sessionVars, lastSent,
                    currentTarget, txState, writing, inflight, lastSelOk,
                    serialSupported>>
     /\ UNCHANGED auxVars

\* ------------------------------------------------------------------------
\* The specification
\* ------------------------------------------------------------------------

\* The session of one bridge on a viewer that is already set up.
Next ==
  \/ \E w \in Writes : SetJointValue(w[1], w[2])
  \/ \E b \in Batches : SendJoints(b)
  \/ FlushTick
  \/ \E ok \in BOOLEAN : WriteSettle(ok)
  \/ ConnectCall
  \/ \E ok \in BOOLEAN : RequestSettle(ok)
  \/ \E res \in {"ok", "reject", "notWritable"} : OpenSettle(res)
  \/ Disconnect
  \/ DisconnectFinish
  \/ Close
  \/ \E w \in TelemetryWrites : ApplyStateToViewer(w[1], w[2])

Spec == Init /\ [][Next]_vars

\* The setJointValue slot: wrappers installed in any order, joint writes
\* through whatever the slot holds, and close().
NextViewer ==
  \/ \E ok \in BOOLEAN : SetupJointLimits(ok)
  \/ SetupBridge
  \/ \E w \in Writes : SetJointValue(w[1], w[2])
  \/ \E b \in Batches : SendJoints(b)
  \/ Close

SpecViewer == InitViewer /\ [][NextViewer]_vars

\* ------------------------------------------------------------------------
\* Properties of the serial bridge (checked under Spec)
\* ------------------------------------------------------------------------

\* C1: a position packet meant for motor M is handed to the transport only
\* when the most recent select packet that was written successfully
\* addressed M; none is written for a motor whose select has not succeeded.
SelectBeforePosition ==
  inflight.kind \in {"pos", "direct"} => lastSelOk = inflight.id

\* A position packet for motor 2 is in flight after motor 1 was served.
SelectBeforePositionReached ==
  /\ inflight.kind = "pos"
  /\ inflight.id = 2
  /\ lastSent[1] # NoPV

\* C2: coalescing is last-write-wins: the position packet handed to the
\* transport for a joint carries the position computed from the last value
\* that was written (and accepted) for that joint, never an earlier one.
LastWriteWins ==
  [][\A id \in Ids :
       (/\ inflight = NoWrite
        /\ inflight'.kind \in {"pos", "direct"}
        /\ inflight'.id = id
        /\ latest[id] # NoPV)
       => inflight'.u16 = latest[id].pos]_vars

\* The write lies within the deadband of the joint's last transmitted value.
InDeadbandOfLastSent(w) ==
  LET id == getDxlId(w[1]) IN
  /\ id # 0
  /\ w[2] # NaN
  /\ lastSent[id] # NoPV
  /\ Abs(lastSent[id].rad - clampWithViewerLimits(w[1], w[2])) < deadbandRad

WriteFailureRestores ==
  [][WriteSettle(FALSE) =>
       /\ ~connected'
       /\ lastStatus' = emitStatus(FALSE, "write")
       /\ txState' = NoTx
       /\ PHas(pending', inflight.id)]_vars

\* ------------------------------------------------------------------------
\* Properties of the setJointValue slot (checked under SpecViewer)
\* ------------------------------------------------------------------------

\* C5: when the joint-limit enforcer has wrapped viewer.setJointValue and
\* the bridge was set up on top of it, close() leaves in the slot exactly
\* the function the bridge captured at setup, the limit enforcer's wrapper,
\* not the viewer's raw primitive.
CloseRestoresCaptured ==
  [][(Close /\ slotAtWrap[BridgeFn].k = "limit")
     => (slot' = slotAtWrap[BridgeFn] /\ slot' # RawFn)]_vars

\* The bridge was set up over a limit wrapper and has been closed.
CloseRestoresCapturedReached ==
  /\ bridge = "closed"
  /\ slotAtWrap[BridgeFn].k = "limit"
  /\ slot = slotAtWrap[BridgeFn]

\* C6: every wrapper installed on the slot forwards to the function that was
\* in the slot when it wrapped, so that a write through the slot reaches the
\* bridge's queueJoint whenever the bridge's wrapper is installed.
BridgeNeverBypassed ==
  /\ \A n \in 1..limitInstalls : LimitForward = slotAtWrap[LimitFn(n)]
  /\ bridge = "up" => BridgeForward = slotAtWrap[BridgeFn]
  /\ bridge = "up" => CallFn(slot, "shoulder", 0).qHit

\* ------------------------------------------------------------------------
\* Properties of the session (checked under Spec)
\* ------------------------------------------------------------------------

\* C7: applying incoming telemetry to the viewer writes through the
\* original function only: it adds no entry to the PendingQueue, schedules
\* no flush and hands nothing to the transport, whatever the coalescer holds.
EchoSuppression ==
  [][(\E w \in TelemetryWrites : ApplyStateToViewer(w[1], w[2]))
     => UNCHANGED <<pending, flushTimer, inflight, txState, lastSent>>]_vars

\* Telemetry can arrive (the session is connected) while the coalescer
\* holds a pending value, a TxState and a transmitted value.
EchoSuppressionReached ==
  /\ bridge = "up" /\ connected
  /\ pending # <<>>
  /\ txState # NoTx
  /\ lastSent[1] # NoPV

\* C8: immediately after close() returns, from any bridge state, the slot
\* holds the function captured at setup, no flush timer is outstanding,
\* PendingQueue and LastSent are empty, TxState is absent, the cached
\* target motor is null and connected is false.
CloseClearsAll ==
  [][Close =>
       /\ slot' = originalSetJointValue
       /\ ~flushTimer'
       /\ pending' = <<>>
       /\ \A id \in Ids : lastSent'[id] = NoPV
       /\ txState' = NoTx
       /\ currentTarget' = 0
       /\ ~connected']_vars

\* close() has run while a write was in flight and values had been sent.
CloseClearsAllReached ==
  /\ bridge = "closed"
  /\ inflight # NoWrite
  /\ lastSelOk # 0
  /\ pending = <<>>

\* C9: a transport failure is never raised to the caller of setJointValue
\* or sendJoints: the calls return normally in every session state, and a
\* write failure is surfaced through onStatus.
FailureOnlyThroughStatus ==
  [][/\ raised' # "none" => ~(\E w \in Writes : SetJointValue(w[1], w[2]))
     /\ raised' # "none" => ~(\E b \in Batches : SendJoints(b))
     /\ WriteSettle(FALSE) => lastStatus' = emitStatus(FALSE, "write")]_vars

\* After a write failure (the writer is held, the session is down) a write
\* has been queued and its call returned.
FailureOnlyThroughStatusReached ==
  /\ writer /\ ~connected
  /\ pending # <<>>
  /\ latest[1] # NoPV
  /\ raised = "none"

\* C10: when connect() fails its promise rejects, connected is false
\* afterwards, onStatus was called with connected = false and a lastError,
\* and only a call of connect() starts another attempt; connect() on a
\* connected session changes nothing.
ConnectFailureHandled ==
  [][/\ (raised' = "connect" =>
           /\ ~connected'
           /\ lastStatus'.connected = FALSE
           /\ lastStatus'.lastError \in {"connect", "unsupported"}
           /\ cpc' = "idle")
     /\ ((cpc = "idle" /\ cpc' # "idle") => ConnectCall)
     /\ ((ConnectCall /\ AlreadyConnected) =>
           UNCHANGED <<viewerVars, sessionVars, queueVars>>
           /\ lastStatus' = NoStatus)]_vars

\* A connection attempt has just failed on a session that had a port.
ConnectFailureHandledReached ==
  /\ raised = "connect"
  /\ port
  /\ lastStatus = emitStatus(FALSE, "connect")

\* ------------------------------------------------------------------------
\* The RC-100 frame (makeRc100PacketU16)
\* ------------------------------------------------------------------------

\* a ^ b and a & b on the low n bits.
RECURSIVE BitXor(_, _, _)
BitXor(a, b, n) ==
  IF n = 0 THEN 0
  ELSE (((a % 2) + (b % 2)) % 2) + 2 * BitXor(a \div 2, b \div 2, n - 1)

RECURSIVE BitAnd(_, _, _)
BitAnd(a, b, n) ==
  IF n = 0 THEN 0
  ELSE ((a % 2) * (b % 2)) + 2 * BitAnd(a \div 2, b \div 2, n - 1)

\* Fault variant of makeRc100PacketU16: the high byte goes first.
makeRc100PacketHighFirst(data16) ==
  LET v == BitAnd(data16, 65535, 16)
      lb == BitAnd(v, 255, 8)
      hb == BitAnd(v \div 256, 255, 8)
  IN <<255, 85, hb, BitXor(hb, 255, 8), lb, BitXor(lb, 255, 8)>>

\* makeRc100PacketU16(data16): FF 55 lb ~lb hb ~hb
makeRc100PacketU16(data16) ==
  LET v == BitAnd(data16, 65535, 16)
      lb == BitAnd(v, 255, 8)
      hb == BitAnd(v \div 256, 255, 8)
  IN <<255, 85, lb, BitXor(lb, 255, 8), hb, BitXor(hb, 255, 8)>>

\* Every value safeWriteU16 can be handed: the 16-bit range.
U16 == 0..65535

InitPacket ==
  /\ FreshViewer
  /\ AnimatorIdle
  /\ call \in U16
  /\ result = <<>>

\* safeWriteU16 builds the frame of its argument.
EncodePacket ==
  /\ result = <<>>
  /\ result' = makeRc100PacketU16(call)
  /\ UNCHANGED <<call, programVars>>

NextPacket == EncodePacket

SpecPacket == InitPacket /\ [][NextPacket]_vars

\* C11: for every 16-bit value v the encoder emits exactly the six bytes
\* 0xFF, 0x55, v mod 256, 255 - (v mod 256), v div 256, 255 - (v div 256).
FrameChecksum ==
  result # <<>> =>
    result = <<255, 85, call % 256, 255 - (call % 256),
               call \div 256, 255 - (call \div 256)>>

\* The select code of motor 1 has been encoded.
FrameChecksumReached ==
  /\ result # <<>>
  /\ call = CMD_BASE + 1
  /\ result[3] # result[5]

\* ------------------------------------------------------------------------
\* Angle to actuator position (defaultRadToPosFactory, clampInt)
\* ------------------------------------------------------------------------

\* Joint limits a URDF can carry (milliradians): the shoulder's, the
\* default range, a one-sided range, equal bounds and swapped bounds.
LimitPairs ==
  {<<-1570, 1570>>, <<-PiMilli, PiMilli>>, <<0, 1570>>, <<-1570, 0>>,
   <<700, 700>>, <<0, 0>>, <<1570, -1570>>, <<-333, 1000>>}

\* Angles written, inside and outside the limits.
MaxAngle == 1700
Angles == (-MaxAngle)..MaxAngle

NoPos == -1

InitRadToPos ==
  /\ ViewerWithBridge
  /\ AnimatorIdle
  /\ call \in [lo : {l[1] : l \in LimitPairs}, hi : {l[2] : l \in LimitPairs},
               rad : Angles]
  /\ <<call.lo, call.hi>> \in LimitPairs
  /\ result = [pos |-> NoPos, queued |-> NoPos]

\* The write of call.rad to the shoulder through the wrapper, on an empty
\* queue, and the position of call.rad under the limits of the call.
ConvertAngle ==
  LET q == queueJoint([pending |-> <<>>, flushTimer |-> FALSE, timers |-> 0,
                       kept |-> FALSE], "shoulder",
                      clampWithViewerLimits("shoulder", call.rad))
  IN /\ result.pos = NoPos
     /\ result' = [pos |-> defaultRadToPos(call.lo, call.hi, call.rad),
                   queued |-> PGet(q.pending, jointNameMap.shoulder).pos]
     /\ UNCHANGED <<call, programVars>>

NextRadToPos == ConvertAngle

SpecRadToPos == InitRadToPos /\ [][NextRadToPos]_vars

\* The angle clamped into [lo, hi] as the code clamps it.
LimitClamped(lo, hi, rad) == Max(lo, Min(hi, rad))

\* C12: with the shoulder in [-1.57, 1.57] and positions in [0, 1023],
\* angle 0 queues position 512 and angle 1.57 queues 1023; the position is
\* the linear map of the limit-clamped angle onto [posMin, posMax] rounded
\* to the nearest integer, lies in [posMin, posMax], and is the midpoint
\* when upper equals lower.
AngleToPosition ==
  result.pos # NoPos =>
    LET lo == call.lo
        hi == call.hi
        r == LimitClamped(lo, hi, call.rad)
        exactNum == posMin * (hi - lo) + (r - lo) * (posMax - posMin)
    IN /\ result.pos \in posMin..posMax
       /\ hi = lo => result.pos = 512
       /\ hi # lo => 2 * Abs(result.pos * (hi - lo) - exactNum) <= Abs(hi - lo)
       /\ (lo = UrdfLimits.shoulder.lower /\ hi = UrdfLimits.shoulder.upper)
            => /\ result.queued = result.pos
               /\ call.rad = 0 => result.queued = 512
               /\ call.rad = 1570 => result.queued = 1023

\* Angle 0 was written to the shoulder and its position queued.
AngleToPositionReached ==
  /\ result.queued = 512
  /\ call.rad = 0
  /\ call.lo = -1570 /\ call.hi = 1570

\* ------------------------------------------------------------------------
\* The joint resolver (normKey, tokens, tokenSim, levenshtein, editSim,
\* resolveJointTarget).  A string is the sequence of its characters.
\* ------------------------------------------------------------------------

\* String.prototype.toLowerCase on the letters A-Z.
LowerOf ==
  [A |-> "a", B |-> "b", C |-> "c", D |-> "d", E |-> "e", F |-> "f", G
   |-> "g", H |-> "h", I |-> "i", J |-> "j", K |-> "k", L |-> "l", M
   |-> "m", N |-> "n", O |-> "o", P |-> "p", Q |-> "q", R |-> "r", S
   |-> "s", T |-> "t", U |-> "u", V |-> "v", W |-> "w", X |-> "x", Y
   |-> "y", Z |-> "z"]

toLowerCase(s) ==
  [i \in 1..Len(s) |-> IF s[i] \in DOMAIN LowerOf THEN LowerOf[s[i]] ELSE s[i]]

\* replace(/[C]/g, "_") for a character class C.
ReplaceEach(s, C) == [i \in 1..Len(s) |-> IF s[i] \in C THEN "_" ELSE s[i]]

\* replace(/[C]+/g, "_"): every maximal run of characters of C becomes "_".
RECURSIVE SquashFrom(_, _, _)
SquashFrom(s, C, i) ==
  IF i > Len(s) THEN <<>>
  ELSE IF s[i] \notin C THEN <<s[i]>> \o SquashFrom(s, C, i + 1)
  ELSE IF i > 1 /\ s[i - 1] \in C THEN SquashFrom(s, C, i + 1)
  ELSE <<"_">> \o SquashFrom(s, C, i + 1)

SquashRuns(s, C) == SquashFrom(s, C, 1)

\* replace(/(^_+|_+$)/g, "")
RECURSIVE TrimLeft(_)
TrimLeft(s) == IF s # <<>> /\ Head(s) = "_" THEN TrimLeft(Tail(s)) ELSE s

RECURSIVE TrimRight(_)
TrimRight(s) ==
  IF s # <<>> /\ s[Len(s)] = "_" THEN TrimRight(SubSeq(s, 1, Len(s) - 1)) ELSE s

TrimEdges(s) == TrimRight(TrimLeft(s))

EndsWith(s, suf) ==
  Len(s) >= Len(suf) /\ SubSeq(s, Len(s) - Len(suf) + 1, Len(s)) = suf

\* replace(/suf$/, "")
StripSuffix(s, suf) ==
  IF EndsWith(s, suf) THEN SubSeq(s, 1, Len(s) - Len(suf)) ELSE s


\* normKey(s): the seven replacements in the order the code applies them.
\* replace(/(s1|s2)$/, ""): the first alternative that matches at the end.
StripEither(s, s1, s2) ==
  IF EndsWith(s, s1) THEN StripSuffix(s, s1) ELSE StripSuffix(s, s2)

normKey(s) ==
  StripSuffix(
    StripEither(
      TrimEdges(
        SquashRuns(
          SquashRuns(ReplaceEach(toLowerCase(s), {".", "-"}), {" "}),
          {"_"})),
      <<"j", "o", "i", "n", "t">>, <<"j", "n", "t">>),
    <<"_", "j", "o", "i", "n", "t">>)

\* a.includes(b)
Includes(a, b) ==
  \E i \in 0..(Len(a) - Len(b)) : SubSeq(a, i + 1, i + Len(b)) = b


\* tokens(s) as the set tokenSim builds from it: the non-empty pieces of
\* normKey(s) between underscores, with left -> l and right -> r.
SplitTokens(n) ==
  LET spans == {ij \in (1..Len(n)) \X (1..Len(n)) :
                  /\ ij[1] <= ij[2]
                  /\ \A k \in ij[1]..ij[2] : n[k] # "_"
                  /\ (ij[1] = 1 \/ n[ij[1] - 1] = "_")
                  /\ (ij[2] = Len(n) \/ n[ij[2] + 1] = "_")}
      raw == {SubSeq(n, ij[1], ij[2]) : ij \in spans}
  IN {IF t = <<"l", "e", "f", "t">> THEN <<"l">>
      ELSE IF t = <<"r", "i", "g", "h", "t">> THEN <<"r">>
      ELSE t : t \in raw}

tokens(s) == SplitTokens(normKey(s))

\* A score is the fraction n / d with d > 0.
Frac(n, d) == [n |-> n, d |-> d]
FracLess(x, y) == x.n * y.d < y.n * x.d
FracGap(x, y) == Frac(Abs(x.n * y.d - y.n * x.d), x.d * y.d)

\* tokenSim(a, b): the Jaccard index of the two token sets.
Jaccard(A, B) ==
  LET inter == Cardinality(A \cap B)
      union == Cardinality(A) + Cardinality(B) - inter
  IN IF A = {} \/ B = {} THEN Frac(0, 1)
     ELSE IF union # 0 THEN Frac(inter, union) ELSE Frac(0, 1)

tokenSim(a, b) == Jaccard(tokens(a), tokens(b))

\* One row of the dp array: dp[j] = min(dp[j] + 1, dp[j-1] + 1, prev + cost).
RECURSIVE LevRow(_, _, _, _)
LevRow(prev, c, t, acc) ==
  IF Len(acc) = Len(prev) THEN acc
  ELSE LET j == Len(acc)
           cost == IF c = t[j] THEN 0 ELSE 1
       IN LevRow(prev, c, t,
                 Append(acc, Min(Min(prev[j + 1] + 1, acc[j] + 1), prev[j] + cost)))

RECURSIVE LevFrom(_, _, _, _)
LevFrom(s, t, i, row) ==
  IF i > Len(s) THEN row[Len(t) + 1]
  ELSE LevFrom(s, t, i + 1, LevRow(row, s[i], t, <<row[1] + 1>>))

\* levenshtein(a, b): the edit distance of normKey(a) and normKey(b).
EditDistance(s, t) ==
  IF Len(s) = 0 THEN Len(t)
  ELSE IF Len(t) = 0 THEN Len(s)
  ELSE LevFrom(s, t, 1, [j \in 1..(Len(t) + 1) |-> j - 1])

levenshtein(a, b) == EditDistance(normKey(a), normKey(b))

\* editSim(a, b) = 1 - dist / maxLen; it hands the normalized strings to
\* levenshtein, which normalizes them again.
EditRatio(s, t, dist) ==
  LET maxLen == IF Max(Len(s), Len(t)) = 0 THEN 1 ELSE Max(Len(s), Len(t))
  IN Frac(maxLen - dist, maxLen)

NormalizedRatio(s, t) == EditRatio(s, t, levenshtein(s, t))

editSim(a, b) == NormalizedRatio(normKey(a), normKey(b))

\* score = 0.6 * s1 + 0.4 * s2
Weighted(s1, s2) == Frac(6 * s1.n * s2.d + 4 * s2.n * s1.d, 10 * s1.d * s2.d)

Score(mapped, name) == Weighted(tokenSim(mapped, name), editSim(mapped, name))

\* null and undefined, which no string equals.
NoJoint == <<"<null>">>
Undefined == <<"<undefined>">>

\* map?.[k] on the entries of the map
MapGet(map, k) ==
  IF \E i \in 1..Len(map) : map[i].key = k
  THEN map[CHOOSE i \in 1..Len(map) : map[i].key = k].target
  ELSE Undefined

\* mapped = map?.[reqRaw] ?? map?.[reqRaw.toLowerCase()] ?? map?.[reqNorm] ?? reqRaw
\* a ?? b ?? c ?? d
Coalesce(a, b, c, d) ==
  IF a # Undefined THEN a
  ELSE IF b # Undefined THEN b
  ELSE IF c # Undefined THEN c
  ELSE d

Mapped(requested, map) ==
  Coalesce(MapGet(map, requested), MapGet(map, toLowerCase(requested)),
           MapGet(map, normKey(requested)), requested)

\* joints[name] is set
IsLive(keys, nm) == \E i \in 1..Len(keys) : keys[i] = nm

\* keys.find(...): the first key of a non-empty set of indices
FirstOf(S) == CHOOSE i \in S : \A j \in S : i <= j

\* const threshold = 0.78, and the gap under which two scores are a tie
threshold == Frac(78, 100)
ambiguityGap == Frac(3, 100)

\* Fault variant of IsAmbiguous: the tie test is left out.
IsAmbiguousNever(x, y) == FALSE

\* Math.abs(best.score - second.score) < 0.03
IsAmbiguous(x, y) == FracLess(FracGap(x, y), ambiguityGap)

\* The index that sort((a, b) => b.score - a.score) puts first among the
\* indices S: the highest score, the earliest key among equals.
TopIndex(sc, S) ==
  CHOOSE i \in S :
    /\ \A j \in S : ~FracLess(sc[i], sc[j])
    /\ \A j \in S : j < i => FracLess(sc[j], sc[i])

Resolved(joint, confidence, reason) ==
  [joint |-> joint, confidence |-> confidence, reason |-> reason]

\* 3) similarity scoring
\* best = scored[0], second = scored[1]
Decide(keys, sc, b) ==
  LET rest == (1..Len(keys)) \ {b}
  IN IF FracLess(sc[b], threshold)
     THEN Resolved(NoJoint, sc[b], "below-threshold")
     ELSE IF rest # {} /\ IsAmbiguous(sc[b], sc[TopIndex(sc, rest)])
     THEN Resolved(NoJoint, sc[b], "ambiguous")
     ELSE Resolved(keys[b], sc[b], "similarity")

Ranked(keys, sc) == Decide(keys, sc, TopIndex(sc, 1..Len(keys)))

SimilarityStage(mapped, keys) ==
  Ranked(keys, [i \in 1..Len(keys) |-> Score(mapped, keys[i])])

\* 1) normalized exact, 2) includes, 3) similarity
\* kn.includes(mappedNorm) || mappedNorm.includes(kn)
EitherIncludes(kn, mappedNorm) ==
  Includes(kn, mappedNorm) \/ Includes(mappedNorm, kn)

StagesOn(mapped, keys, mappedNorm, keysNorm) ==
  LET nExact == {i \in 1..Len(keys) : keysNorm[i] = mappedNorm}
      partial == {i \in 1..Len(keys) : EitherIncludes(keysNorm[i], mappedNorm)}
  IN IF nExact # {}
     THEN Resolved(keys[FirstOf(nExact)], Frac(98, 100), "normalized-exact")
     ELSE IF partial # {}
     THEN Resolved(keys[FirstOf(partial)], Frac(85, 100), "includes")
     ELSE SimilarityStage(mapped, keys)

StagesAfterMap(mapped, keys) ==
  StagesOn(mapped, keys, normKey(mapped),
           [i \in 1..Len(keys) |-> normKey(keys[i])])

\* Fault variant of ExplicitHit: the map is consulted under the raw key only.
ExplicitHitRawOnly(keys, requested, map) ==
  IsLive(keys, IF MapGet(map, requested) # Undefined
               THEN MapGet(map, requested) ELSE requested)

\* 0) explicit map: joints[mapped] is set
ExplicitHit(keys, requested, map) == IsLive(keys, Mapped(requested, map))

\* resolveJointTarget(viewer, requested, map); the map is always an object
\* (applyMotionsToViewer passes options.jointNameMap ?? {}).
ResolveMapped(hit, mapped, keys) ==
  IF hit THEN Resolved(mapped, Frac(1, 1), "explicit-map")
  ELSE StagesAfterMap(mapped, keys)

resolveJointTarget(hasJoints, keys, requested, map) ==
  IF ~hasJoints THEN Resolved(NoJoint, Frac(0, 1), "no-joints")
  ELSE IF keys = <<>> THEN Resolved(NoJoint, Frac(0, 1), "no-keys")
  ELSE ResolveMapped(ExplicitHit(keys, requested, map),
                     Mapped(requested, map), keys)

\* The names used in the requests, the live joints and the maps.
Str_arm == <<"a", "r", "m">>
Str_Arm_upper == <<"A", "r", "m">>
Str_elbow == <<"e", "l", "b", "o", "w">>
Str_left_elbow == <<"l", "e", "f", "t", "_", "e", "l", "b", "o", "w">>
Str_wrist == <<"w", "r", "i", "s", "t">>
Str_l_arm_joint == <<"l", "_", "a", "r", "m", "_", "j", "o", "i", "n", "t">>
Str_r_arm_joint == <<"r", "_", "a", "r", "m", "_", "j", "o", "i", "n", "t">>
Str_Elbow_sp_Joint == <<"E", "l", "b", "o", "w", " ", "J", "o", "i", "n", "t">>
Str_elbow_joint == <<"e", "l", "b", "o", "w", "_", "j", "o", "i", "n", "t">>
Str_l_elbow_joint == <<"l", "_", "e", "l", "b", "o", "w", "_", "j", "o", "i", "n", "t">>
Str_r_elbow_joint == <<"r", "_", "e", "l", "b", "o", "w", "_", "j", "o", "i", "n", "t">>
Str_l_elbow_jnt == <<"l", "_", "e", "l", "b", "o", "w", "_", "j", "n", "t">>
Str_elbowjoint == <<"e", "l", "b", "o", "w", "j", "o", "i", "n", "t">>
Str_ghost == <<"g", "h", "o", "s", "t">>
Str_elbow_ == <<"e", "l", "b", "o", "w", "_">>

Str_empty == <<>>
Str_underscore == <<"_">>
Str_joint == <<"j", "o", "i", "n", "t">>

Requests ==
  {Str_arm, Str_Arm_upper, Str_elbow, Str_left_elbow, Str_wrist,
   Str_l_arm_joint, Str_Elbow_sp_Joint, Str_empty, Str_underscore, Str_joint}

\* Object.keys(viewer.robot.joints), in insertion order.
JointLists ==
  {<<Str_l_arm_joint, Str_r_arm_joint>>,
   <<Str_elbow_joint>>,
   <<Str_l_elbow_joint, Str_r_elbow_joint>>,
   <<Str_l_elbow_joint, Str_l_elbow_jnt>>,
   <<Str_elbowjoint, Str_wrist>>,
   <<>>}

MapEntry(k, t) == [key |-> k, target |-> t]

\* options.jointNameMap
JointNameMaps ==
  {<<>>,
   <<MapEntry(Str_arm, Str_r_arm_joint)>>,
   <<MapEntry(Str_Arm_upper, Str_ghost), MapEntry(Str_arm, Str_l_arm_joint)>>,
   <<MapEntry(Str_elbow, Str_wrist), MapEntry(Str_elbow_, Str_elbowjoint)>>}

NoResolve == Resolved(NoJoint, Frac(0, 1), "not called")

InitResolver ==
  /\ FreshViewer
  /\ AnimatorIdle
  /\ call \in [hasJoints : BOOLEAN, joints : JointLists, requested : Requests,
               map : JointNameMaps]
  /\ result = NoResolve

Resolve ==
  /\ result = NoResolve
  /\ result' = resolveJointTarget(call.hasJoints, call.joints, call.requested,
                                  call.map)
  /\ UNCHANGED <<call, programVars>>

NextResolver == Resolve

SpecResolver == InitResolver /\ [][NextResolver]_vars

\* ------------------------------------------------------------------------
\* Properties of the resolver (checked under SpecResolver)
\* ------------------------------------------------------------------------

\* C13: with live joints l_arm_joint and r_arm_joint, no map entry and the
\* request "arm", resolve returns joint null with reason ambiguous, never
\* one of the two joints.
TieBreakAmbiguous ==
  (/\ result # NoResolve
   /\ call.hasJoints
   /\ call.joints = <<Str_l_arm_joint, Str_r_arm_joint>>
   /\ call.requested = Str_arm
   /\ call.map = <<>>)
  => (result.joint = NoJoint /\ result.reason = "ambiguous")

\* The entry the lookup chain ends on: the raw key, else the lowercased
\* key, else the normalized key.
FirstEntry(requested, map) ==
  LET cands == <<requested, toLowerCase(requested), normKey(requested)>>
      present == {i \in 1..3 : MapGet(map, cands[i]) # Undefined}
  IN IF present = {} THEN Undefined ELSE MapGet(map, cands[FirstOf(present)])

\* C14 (as stated): when the map has an entry for the requested name under
\* its raw, lowercased or normalized key whose target is a live joint,
\* resolve returns that target with confidence 1.0 and reason explicit-map.
ExplicitMapWins ==
  (result # NoResolve /\ call.hasJoints) =>
    \A k \in {call.requested, toLowerCase(call.requested),
              normKey(call.requested)} :
      (MapGet(call.map, k) # Undefined /\ IsLive(call.joints, MapGet(call.map, k)))
      => result = Resolved(MapGet(call.map, k), Frac(1, 1), "explicit-map")

\* C14 (amended): when the first entry found for the requested name, looked
\* up under the raw key, then the lowercased key, then the normalized key,
\* has a live joint as its target, resolve returns that target with
\* confidence 1.0 and reason explicit-map, whatever else matches.
ExplicitMapFirstEntryWins ==
  (/\ result # NoResolve
   /\ call.hasJoints
   /\ FirstEntry(call.requested, call.map) # Undefined
   /\ IsLive(call.joints, FirstEntry(call.requested, call.map)))
  => result = Resolved(FirstEntry(call.requested, call.map), Frac(1, 1),
                       "explicit-map")

\* "Arm" was resolved through the entry under its lowercased key to
\* r_arm_joint, while l_arm_joint is the first substring match.
ExplicitMapFirstEntryWinsReached ==
  /\ result.reason = "explicit-map"
  /\ call.requested = Str_Arm_upper
  /\ call.map = <<MapEntry(Str_arm, Str_r_arm_joint)>>
  /\ result.joint = Str_r_arm_joint
  /\ call.joints = <<Str_l_arm_joint, Str_r_arm_joint>>

\* No stage before the similarity stage matches.
NoEarlierMatch ==
  LET m == Mapped(call.requested, call.map) IN
  /\ call.hasJoints
  /\ call.joints # <<>>
  /\ ~IsLive(call.joints, m)
  /\ \A i \in 1..Len(call.joints) :
       /\ normKey(call.joints[i]) # normKey(m)
       /\ ~Includes(normKey(call.joints[i]), normKey(m))
       /\ ~Includes(normKey(m), normKey(call.joints[i]))

\* C15: when no earlier stage matches, resolve returns a joint, the best
\* scoring one with reason similarity, if and only if the best score is at
\* least 0.78 and exceeds the second best by at least 0.03; otherwise the
\* joint is null, with reason below-threshold under 0.78 and ambiguous when
\* the gap is under 0.03.
SimilarityRule ==
  (result # NoResolve /\ NoEarlierMatch) =>
    LET m == Mapped(call.requested, call.map)
        keys == call.joints
        sc == [i \in 1..Len(keys) |-> Score(m, keys[i])]
        bi == CHOOSE i \in 1..Len(keys) :
                \A j \in 1..Len(keys) : ~FracLess(sc[i], sc[j])
        others == (1..Len(keys)) \ {bi}
        passes == ~FracLess(sc[bi], Frac(78, 100))
        clear == \A j \in others :
                   ~FracLess(FracGap(sc[bi], sc[j]), Frac(3, 100))
    IN /\ result.joint # NoJoint <=> (passes /\ clear)
       /\ result.joint # NoJoint =>
            /\ result.reason = "similarity"
            /\ \E i \in 1..Len(keys) :
                 /\ keys[i] = result.joint
                 /\ ~FracLess(sc[i], sc[bi])
       /\ ~passes => result.reason = "below-threshold"
       /\ (passes /\ ~clear) => result.reason = "ambiguous"

\* "left_elbow" was resolved by similarity to l_elbow_joint.
SimilarityRuleReached ==
  /\ result.reason = "similarity"
  /\ call.requested = Str_left_elbow
  /\ result.joint = Str_l_elbow_joint

\* C16: a requested name and a live joint that differ only by a trailing
\* joint suffix have the same normalized form: the request "elbow" against
\* the live joint "elbow_joint" resolves with reason normalized-exact and
\* confidence 0.98.
NormalizationEquates ==
  (/\ result # NoResolve
   /\ call.hasJoints
   /\ call.joints = <<Str_elbow_joint>>
   /\ call.requested = Str_elbow
   /\ call.map = <<>>)
  => /\ normKey(Str_elbow) = normKey(Str_elbow_joint)
     /\ result = Resolved(Str_elbow_joint, Frac(98, 100), "normalized-exact")

\* ------------------------------------------------------------------------
\* The motion animator of the viewer component
\* (applyMotionsToViewer; applyJointMotionsToViewer has the same loop on
\* viewer.__motionRafId)
\* ------------------------------------------------------------------------

RECURSIVE Gcd(_, _)
Gcd(a, b) == IF b = 0 THEN a ELSE Gcd(b, a % b)

\* A number of the animation, kept exact in lowest terms.
Reduced(x) ==
  LET g == Gcd(Abs(x.n), x.d)
  IN Frac(x.n \div g, x.d \div g)

One == Frac(1, 1)

\* The joints of the loaded robot and their limits (limit.lower/upper in
\* milliradians; the wrist has no limit object).
RobotJoints == <<Str_elbowjoint, Str_wrist>>
HasLimit(joint) == joint = Str_elbowjoint
LimitLower(joint) == -1000
LimitUpper(joint) == 1000

\* The component with a loaded robot, every joint at 0.
RobotLoaded == jointValue = [j \in {Str_elbowjoint, Str_wrist} |-> Frac(0, 1)]

\* options.defaultDurationMs as every dispatcher of robot:moveJoints
\* passes it, which is also the fallback of line 332.
defaultDurationMs == 350

\* toRadians(angle, assumeDegrees), angle in thousandths: above 2 pi + 1e-3
\* the angle is taken as degrees.
toRadians(angle, assumeDegrees) ==
  IF assumeDegrees \/ Abs(angle) > 2 * PiMilli + 1
  THEN RoundDiv(angle * PiMilli, 180000)
  ELSE angle

\* clampToJointLimits(viewer, jointName, angleRad)
clampToJointLimits(joint, angleRad) ==
  IF ~HasLimit(joint) THEN angleRad
  ELSE LET lo == IF angleRad < LimitLower(joint) THEN LimitLower(joint)
                 ELSE angleRad
       IN IF lo > LimitUpper(joint) THEN LimitUpper(joint) ELSE lo

\* durationMs of a motion whose time is given in thousandths (0: no time):
\* raw = time > 0 ? time : defaultDurationMs; raw < 20 ? raw * 1000 : raw
DurationMs(timeMilli) ==
  LET rawMilli == IF timeMilli > 0 THEN timeMilli
                  ELSE defaultDurationMs * 1000
  IN IF rawMilli < 20000 THEN rawMilli ELSE rawMilli \div 1000

\* resolveJointTarget(viewer, m.joint, jointNameMap) on the loaded robot
\* with jointNameMap = {}, for the names the motions use.
ResolvedOnRobot ==
  [r \in {Str_elbow, Str_wrist, Str_ghost} |->
     resolveJointTarget(TRUE, RobotJoints, r, <<>>)]

\* The item of one motion, or no item when the joint does not resolve.
\* req is history: the requested angle in radians before clamping.
ItemsOf(m, values) ==
  LET res == ResolvedOnRobot[m.joint]
  IN IF res.joint = NoJoint THEN <<>>
     ELSE <<[joint |-> res.joint,
             from |-> values[res.joint],
             to |-> clampToJointLimits(res.joint, toRadians(m.angle, FALSE)),
             durationMs |-> DurationMs(m.time),
             req |-> toRadians(m.angle, FALSE)]>>

\* for (const m of motions) { ... items.push(...) }
RECURSIVE BuildItems(_, _)
BuildItems(motions, values) ==
  IF motions = <<>> THEN <<>>
  ELSE ItemsOf(Head(motions), values) \o BuildItems(Tail(motions), values)

\* Fault variant of Progress: the ratio without Math.min(1, ...).
ProgressUnclamped(now, start, durationMs) == Frac(now - start, durationMs)

\* t = Math.min(1, (now - start) / it.durationMs)
Progress(now, start, durationMs) ==
  IF now - start >= durationMs THEN One
  ELSE Frac(now - start, durationMs)

\* value = it.from + (it.to - it.from) * t
Interpolated(it, t) ==
  Reduced(Frac(it.from.n * t.d + (it.to * it.from.d - it.from.n) * t.n,
               it.from.d * t.d))

\* The joint values after viewer.setJointValue(joint, value) for each
\* item in order: the last write to a joint stays.
RECURSIVE WriteAll(_, _, _)
WriteAll(values, items, vals) ==
  IF items = <<>> THEN values
  ELSE WriteAll([values EXCEPT ![Head(items).joint] = Head(vals)],
                Tail(items), Tail(vals))

\* Fault variant of Cancelled: the earlier frame stays requested.
NotCancelled(fs, handle) == fs

\* cancelAnimationFrame(handle)
Cancelled(fs, handle) == {f \in fs : f.handle # handle}

\* The motion lists of robot:moveJoints events (angle and time in
\* thousandths; time 0: no time given).
Motion(j, a, t) == [joint |-> j, angle |-> a, time |-> t]
MotionLists ==
  { <<>>,
    <<Motion(Str_elbow, 1400, 0)>>,
    <<Motion(Str_elbow, 600, 175), Motion(Str_wrist, -800, 700000)>>,
    <<Motion(Str_wrist, 90000, 0)>>,
    <<Motion(Str_ghost, 500, 0)>> }

\* Time between two events, and the end of the observed time.
FrameSteps == {175, 350}
MaxClock == 1400
MaxBatches == 3

InitAnimator ==
  /\ FreshViewer
  /\ AuxIdle
  /\ AnimatorMounted
  /\ RobotLoaded

\* applyMotionsToViewer(viewer, motions, options) on the loaded viewer,
\* wait milliseconds after the previous event.
ApplyMotions(motions, animate, wait) ==
  LET now == clock + wait
      kept == IF rafRef # 0 THEN Cancelled(frames, rafRef) ELSE frames
      items == BuildItems(motions, jointValue)
  IN /\ batchNo < MaxBatches
     /\ now <= MaxClock
     /\ clock' = now
     /\ IF motions = <<>>
        THEN UNCHANGED <<rafRef, frames, nextHandle, jointValue, batchNo,
                         lastTick>>
        ELSE /\ batchNo' = batchNo + 1
             /\ lastTick' = NoTick
             /\ IF items = <<>>
                THEN /\ rafRef' = 0
                     /\ frames' = kept
                     /\ UNCHANGED <<nextHandle, jointValue>>
                ELSE IF ~animate
                THEN /\ rafRef' = 0
                     /\ frames' = kept
                     /\ jointValue' =
                          WriteAll(jointValue, items,
                                   [i \in 1..Len(items) |-> Frac(items[i].to, 1)])
                     /\ UNCHANGED nextHandle
                ELSE /\ rafRef' = nextHandle
                     /\ frames' = kept \cup
                          {[handle |-> nextHandle, batch |-> batchNo + 1,
                            start |-> now, items |-> items]}
                     /\ nextHandle' = nextHandle + 1
                     /\ UNCHANGED jointValue
     /\ UNCHANGED besideAnimator

\* The browser runs the frame callback f: tick(now).
Tick(f, wait) ==
  LET now == clock + wait
      ts == [i \in 1..Len(f.items) |->
               Progress(now, f.start, f.items[i].durationMs)]
      vals == [i \in 1..Len(f.items) |-> Interpolated(f.items[i], ts[i])]
      running == \E i \in 1..Len(f.items) : FracLess(ts[i], One)
  IN /\ f \in frames
     /\ now <= MaxClock
     /\ clock' = now
     /\ jointValue' = WriteAll(jointValue, f.items, vals)
     /\ IF running
        THEN /\ rafRef' = nextHandle
             /\ frames' = (frames \ {f}) \cup {[f EXCEPT !.handle = nextHandle]}
             /\ nextHandle' = nextHandle + 1
        ELSE /\ rafRef' = 0
             /\ frames' = frames \ {f}
             /\ UNCHANGED nextHandle
     /\ lastTick' = [batch |-> f.batch, now |-> now, start |-> f.start,
                     items |-> f.items, values |-> vals, running |-> running]
     /\ UNCHANGED batchNo
     /\ UNCHANGED motionVars
     /\ UNCHANGED besideAnimator

NextAnimator ==
  \/ \E motions \in MotionLists, animate \in BOOLEAN,
        wait \in {0} \cup FrameSteps :
       ApplyMotions(motions, animate, wait) /\ UNCHANGED motionVars
  \/ \E f \in frames, wait \in FrameSteps : Tick(f, wait)

SpecAnimator == InitAnimator /\ [][NextAnimator]_vars

\* C17: a new motion batch with a non-empty motion list cancels the frame
\* loop of any batch still running: at most one animation frame is
\* requested at any time, it belongs to the batch started last and its
\* handle is the one in rafRef, so no tick of an earlier batch can write.
AnimatorCancellation ==
  /\ Cardinality(frames) <= 1
  /\ \A f \in frames : f.batch = batchNo /\ f.handle = rafRef
  /\ rafRef # 0 => \E f \in frames : f.handle = rafRef
  /\ lastTick.batch # 0 => lastTick.batch = batchNo

\* Three batches were started one after the other before any frame ran:
\* the third request is the only one left.
AnimatorCancellationReached ==
  /\ batchNo = 3
  /\ clock = 0
  /\ \E f \in frames : f.batch = 3 /\ f.handle = 3

PendingHoldsLatest ==
  \A id \in Ids : PHas(pending, id) => PGet(pending, id) = latest[id]

\* C20: at most one flush timer is outstanding, and it is the one flushTimer
\* holds; a scheduleFlush() that finds a timer outstanding arms no timer
\* and leaves flushTimer as it is, whether or not the session is connected.
OneFlushTimer ==
  /\ timers <= 1
  /\ flushTimer <=> timers = 1
  /\ \A conn \in BOOLEAN, wr \in BOOLEAN :
       /\ scheduleFlush(TRUE, conn, wr) = TRUE
       /\ Armed(TRUE, conn, wr) = 0

\* A scheduleFlush() of the last step found a timer outstanding while a
\* transport write was in flight, and one timer is outstanding.
OneFlushTimerReached ==
  /\ timerKept
  /\ timers = 1
  /\ writing
  /\ inflight # NoWrite

\* ------------------------------------------------------------------------
\* Properties of the flush cycle (checked under Spec)
\* ------------------------------------------------------------------------

\* C21: while a TxState exists, a step only advances that TxState by one
\* phase or destroys it: the write a tick hands to the transport is the
\* select packet (phase 0) or the position packet (phase 1) of the
\* TxState's motor and no other write is in flight, no entry of another
\* motor leaves the queue before the TxState is destroyed or is recorded
\* as sent, and the TxState is never replaced by one for another motor.
OneUnitPerTick ==
  [][txState # NoTx =>
       /\ \/ txState' = NoTx
          \/ txState' = txState
          \/ txState.phase = 0 /\ txState' = [txState EXCEPT !.phase = 1]
          \/ /\ txState.phase = 1
             /\ txState' = [txState EXCEPT !.val = LatestFor(txState)]
       /\ inflight' # inflight /\ inflight' # NoWrite =>
            /\ inflight = NoWrite
            /\ inflight'.id = txState.id
            /\ inflight'.kind = IF txState.phase = 0 THEN "sel" ELSE "pos"
       /\ txState' # NoTx =>
            \A id \in Ids \ {txState.id} :
              PHas(pending, id) => PHas(pending', id)
       /\ \A id \in Ids \ {txState.id} :
            lastSent'[id] \in {lastSent[id], NoPV}]_vars

\* The position packet of the TxState's motor is in flight while another
\* motor waits in the queue.
OneUnitPerTickReached ==
  /\ txState # NoTx
  /\ txState.phase = 1
  /\ inflight.kind = "pos"
  /\ inflight.id = txState.id
  /\ \E id \in Ids \ {txState.id} : PHas(pending, id)

\* Motor a's last accepted write came before motor b's.
TouchedBefore(a, b) ==
  \E i, k \in 1..Len(touched) : i < k /\ touched[i] = a /\ touched[k] = b

\* The step is a tick without TxState that takes motor id out of the queue.
Pops(id) ==
  /\ txState = NoTx
  /\ PHas(pending, id)
  /\ pending' = PDelete(pending, id)
  /\ \/ txState' # NoTx /\ txState'.id = id
     \/ inflight = NoWrite /\ inflight'.kind = "direct" /\ inflight'.id = id

\* C22: a tick without TxState never takes a motor out of the queue while
\* a motor whose last accepted write came later is still queued, and when
\* the motor taken is the currently addressed one the same tick hands its
\* position packet to the transport and creates no TxState.
RecencyPriority ==
  [][\A id \in Ids :
       Pops(id) =>
         /\ \A other \in Ids : PHas(pending', other) => ~TouchedBefore(id, other)
         /\ currentTarget = id =>
              /\ inflight' = DirectPacket(id, PGet(pending, id))
              /\ txState' = NoTx]_vars

\* ------------------------------------------------------------------------
\* The flush cycle of a session that stays connected
\* ------------------------------------------------------------------------

\* The state after connect() succeeded on a bridge that holds nothing yet:
\* its scheduleFlush() has armed the timer.
ConnectedIdle ==
  /\ limitsLoaded = TRUE
  /\ limitInstalls = 1
  /\ viewerOriginal = RawFn
  /\ originalSetJointValue = LimitFn(1)
  /\ slot = BridgeFn
  /\ bridge = "up"
  /\ slotAtWrap = [w \in Wrappers |->
                     IF w = BridgeFn THEN LimitFn(1)
                     ELSE IF w = LimitFn(1) THEN RawFn
                     ELSE NoFn]
  /\ port = TRUE
  /\ writer = TRUE
  /\ connected = TRUE
  /\ pending = <<>>
  /\ lastSent = [id \in Ids |-> NoPV]
  /\ currentTarget = 0
  /\ txState = NoTx
  /\ flushTimer = TRUE
  /\ timers = 1
  /\ timerKept = FALSE
  /\ writing = FALSE
  /\ inflight = NoWrite
  /\ cpc = "idle"
  /\ closing = 0
  /\ serialSupported = TRUE
  /\ lastSelOk = 0
  /\ latest = [id \in Ids |-> NoPV]
  /\ touched = <<>>
  /\ lastStatus = emitStatus(TRUE, "none")
  /\ raised = "none"

InitDrain == ConnectedIdle /\ AuxIdle /\ AnimatorIdle

\* Joint writes, timer callbacks and transport writes that succeed.
NextDrain ==
  \/ \E w \in Writes : SetJointValue(w[1], w[2])
  \/ \E b \in Batches : SendJoints(b)
  \/ FlushTick
  \/ WriteSettle(TRUE)

\* A timer that is armed fires, and a write handed to the transport settles.
SpecDrain ==
  /\ InitDrain
  /\ [][NextDrain]_vars
  /\ WF_vars(FlushTick)
  /\ WF_vars(WriteSettle(TRUE))

\* The step accepts a new joint value into the queue.
AcceptsValue == \E id \in Ids : latest'[id] \notin {latest[id], NoPV}

\* Nothing is left to send and nothing is scheduled.
Drained ==
  /\ pending = <<>>
  /\ txState = NoTx
  /\ inflight = NoWrite
  /\ ~flushTimer
  /\ timers = 0
  /\ \A id \in Ids : latest[id] = NoPV

\* C23: in a session that stays connected and whose writes all succeed,
\* either new joint values keep being accepted for ever, or from some
\* point on the queue is empty, no TxState exists, the latest accepted
\* value of every motor has been transmitted and no timer is outstanding.
DrainLiveness == []<><<AcceptsValue>>_vars \/ <>[]Drained

\* Both motors were served and the cycle has stopped.
DrainLivenessReached ==
  /\ Drained
  /\ \A id \in Ids : lastSent[id] # NoPV

\* ------------------------------------------------------------------------
\* One caller keeps writing motor 1 while motor 2 waits in the queue
\* ------------------------------------------------------------------------

\* Angles that lie outside the deadband of each other and map to
\* different positions, so that the caller always has a new value at hand.
FarApart == {0, 4, 8}

\* setJointValue('elbow', 0) on the empty queue, before anything was sent.
QueueElbow ==
  /\ pending = <<>>
  /\ lastSent[2] = NoPV
  /\ txState = NoTx
  /\ SetJointValue("elbow", 0)

\* setJointValue('shoulder', value) with a value that queueJoint accepts,
\* after the elbow was queued.
WriteShoulder(value) ==
  /\ PHas(pending, 2)
  /\ SetJointValue("shoulder", value)
  /\ pending' # pending

\* The timer callback, run after the caller has written the shoulder.
TickAfterWrite ==
  /\ PHas(pending, 1)
  /\ FlushTick

NextStarve ==
  \/ QueueElbow
  \/ \E value \in FarApart : WriteShoulder(value)
  \/ TickAfterWrite
  \/ WriteSettle(TRUE)

\* The caller keeps writing, armed timers fire, writes settle.
SpecStarve ==
  /\ InitDrain
  /\ [][NextStarve]_vars
  /\ WF_vars(QueueElbow)
  /\ WF_vars(\E value \in FarApart : WriteShoulder(value))
  /\ WF_vars(TickAfterWrite)
  /\ WF_vars(WriteSettle(TRUE))

\* The step is the successful end of a position write for motor id.
PositionWritten(id) ==
  /\ inflight.kind \in {"pos", "direct"}
  /\ inflight.id = id
  /\ WriteSettle(TRUE)

\* C24: in the execution in which the shoulder is written before every
\* tick, with a healthy connection, shoulder values are transmitted again
\* and again while the elbow's entry, queued first and never touched
\* again, stays in the queue for ever and is never transmitted.
Starvation ==
  /\ [](lastSent[2] = NoPV)
  /\ <>[](PHas(pending, 2) /\ connected)
  /\ []<><<PositionWritten(1)>>_vars

\* The shoulder has been served with two values and the elbow still waits.
StarvationReached ==
  /\ PHas(pending, 2)
  /\ lastSent[1] # NoPV
  /\ lastSent[1].rad = 4
  /\ latest[1] # NoPV
  /\ latest[1].rad = 0
  /\ lastSent[2] = NoPV

\* ------------------------------------------------------------------------
\* The flush period (lines 168-174)
\* ------------------------------------------------------------------------

\* sendIntervalMs left out of the options.
NoInterval == -1

\* Fault variant of minIntervalMs: the lower bound of 5 ms is left out.
minIntervalMsUnbounded(sendIntervalMs, sendHz) ==
  IF sendIntervalMs # NoInterval THEN sendIntervalMs
  ELSE 1000 \div Max(1, sendHz)

\* const minIntervalMs = Math.max(5, typeof sendIntervalMs === "number"
\*   ? Math.floor(sendIntervalMs) : Math.floor(1000 / Math.max(1, sendHz)))
minIntervalMs(sendIntervalMs, sendHz) ==
  Max(5, IF sendIntervalMs # NoInterval THEN sendIntervalMs
         ELSE 1000 \div Max(1, sendHz))

\* The rates and the explicit intervals explored (whole numbers).
MaxHz == 300
IntervalOptions ==
  [sendIntervalMs : {NoInterval, 0, 3, 20}, sendHz : 0..MaxHz]

InitInterval ==
  /\ FreshViewer
  /\ AnimatorIdle
  /\ call \in IntervalOptions
  /\ result = <<>>

\* setupViewerWsHardwareBridge computes the period from its options.
ComputeInterval ==
  /\ result = <<>>
  /\ result' = <<minIntervalMs(call.sendIntervalMs, call.sendHz)>>
  /\ UNCHANGED <<call, programVars>>

NextInterval == ComputeInterval

SpecInterval == InitInterval /\ [][NextInterval]_vars

LeftByDisconnect ==
  /\ inflight # NoWrite
  /\ ~connected /\ ~writer
  /\ txState = NoTx
  /\ currentTarget = 0
  /\ timers = 0

\* C26: when the write that was in flight during disconnect() or close()
\* settles, with success or failure, the callback raises nothing, TxState
\* stays absent, the addressed motor stays null, no timer is armed and,
\* after close(), pending and lastSent stay empty.
TeardownSurvivesSettle ==
  [][(LeftByDisconnect /\ inflight' = NoWrite) =>
       /\ raised' # "callback"
       /\ txState' = NoTx
       /\ currentTarget' = 0
       /\ timers' = 0 /\ ~flushTimer'
       /\ (bridge = "closed" /\ pending = <<>> /\ lastSent = ClearedLastSent) =>
            (pending' = <<>> /\ lastSent' = ClearedLastSent)]_vars

\* The bridge holds an accepted value of motor id that was not transmitted:
\* in the queue, in the TxState, or in the locals of a same-motor write.
HoldsValue(p, tx, w, id) ==
  \/ PHas(p, id)
  \/ tx.id = id
  \/ w.kind = "direct" /\ w.id = id

\* C27: a motor whose accepted value the bridge holds keeps a value in the
\* bridge (the same or a newer one) until a position write for it succeeds
\* or close() is called; disconnect() in particular loses none.
NoCommandLost ==
  [][\A id \in Ids :
       HoldsValue(pending, txState, inflight, id) =>
         \/ HoldsValue(pending', txState', inflight', id)
         \/ PositionWritten(id)
         \/ bridge' = "closed"]_vars

\* C28: a write is handed to the transport only when none is in flight,
\* and a timer callback that runs while a write is in flight leaves the
\* write, the queue, the TxState and lastSent alone and arms the timer
\* again (the session being connected).
SingleWriteInFlight ==
  [][/\ (inflight' # inflight /\ inflight' # NoWrite) =>
          (inflight = NoWrite /\ ~writing /\ writing')
     /\ (inflight # NoWrite /\ FlushTick) =>
          /\ writing
          /\ UNCHANGED <<inflight, writing, pending, txState, lastSent>>
          /\ (connected /\ writer) => (flushTimer' /\ timers' = 1)]_vars

\* A write is in flight and the last step completed a connect(), whose
\* scheduleFlush() armed the timer: the next callback runs during the write.
SingleWriteInFlightReached ==
  /\ inflight # NoWrite
  /\ writing
  /\ lastStatus = emitStatus(TRUE, "none")
  /\ connected /\ writer
  /\ flushTimer /\ timers = 1

\* ------------------------------------------------------------------------
\* Requests that normalize to nothing (checked under SpecResolver)
\* ------------------------------------------------------------------------

\* C29: a requested name whose normalized form is the empty string
\* resolves to no joint, whatever the non-empty joint set, when no
\* explicit map is given.
EmptyNameUnresolved ==
  (/\ result # NoResolve
   /\ call.hasJoints
   /\ call.joints # <<>>
   /\ call.map = <<>>
   /\ normKey(call.requested) = <<>>)
  => result.joint = NoJoint

\* ------------------------------------------------------------------------
\* robot:moveJoints events around the loading of the robot
\* ------------------------------------------------------------------------

MaxArrivals == 3
MaxLoads == 2

\* viewer.robot is set.
RobotReady == jointValue # <<>>

\* The robot:moveJoints handler: no motions, return; robot not ready,
\* store the detail; otherwise apply it.
MoveJoints(motions, animate) ==
  IF motions = <<>>
  THEN UNCHANGED vars
  ELSE /\ arrived < MaxArrivals
       /\ arrived' = arrived + 1
       /\ UNCHANGED <<processing, loads>>
       /\ IF ~RobotReady
          THEN /\ pendingMoveRef' = [n |-> arrived + 1, motions |-> motions,
                                     animate |-> animate]
               /\ UNCHANGED <<applied, animVars, besideAnimator>>
          ELSE /\ ApplyMotions(motions, animate, 0)
               /\ applied' = Append(applied, arrived + 1)
               /\ UNCHANGED pendingMoveRef

\* The viewer has processed a model: viewer.robot is the new robot and
\* every listener of urdf-processed runs up to `await setupJointLimits`
\* (onModelProcessed alone for the first model, onUrdfProcessed with it
\* after a change of robot).
ModelProcessed ==
  /\ loads < MaxLoads
  /\ processing = 0
  /\ loads' = loads + 1
  /\ processing' = IF loads = 0 THEN 1 ELSE 2
  /\ jointValue' = [j \in {Str_elbowjoint, Str_wrist} |-> Frac(0, 1)]
  /\ UNCHANGED <<pendingMoveRef, arrived, applied, rafRef, frames, nextHandle,
                 clock, batchNo, lastTick, besideAnimator>>

\* setupJointLimits has settled for one listener: it applies the stored
\* detail, when there is one, and clears pendingMoveRef.
LimitsSettled ==
  /\ processing > 0
  /\ processing' = processing - 1
  /\ UNCHANGED <<loads, arrived>>
  /\ IF pendingMoveRef # NoBatch
     THEN /\ ApplyMotions(pendingMoveRef.motions, pendingMoveRef.animate, 0)
          /\ applied' = Append(applied, pendingMoveRef.n)
          /\ pendingMoveRef' = NoBatch
     ELSE UNCHANGED <<pendingMoveRef, applied, animVars, besideAnimator>>

InitMotions ==
  /\ FreshViewer
  /\ AuxIdle
  /\ AnimatorIdle

NextMotions ==
  \/ \E motions \in MotionLists, animate \in BOOLEAN :
       MoveJoints(motions, animate)
  \/ ModelProcessed
  \/ LimitsSettled
  \/ \E f \in frames, wait \in FrameSteps : Tick(f, wait)

SpecMotions == InitMotions /\ [][NextMotions]_vars

\* C30: batches are applied in the order in which they arrived, each at
\* most once: a stored batch is never applied after a batch that arrived
\* later has been applied.
ArrivalOrder ==
  \A i, k \in 1..Len(applied) : i < k => applied[i] < applied[k]

====
